---- MODULE Spec2Model ----
(***************************************************************************)
(* Ladder-logic analysis, ST synthesis and scan-cycle simulation of the    *)
(* PLC editor (features/ladder-editor/utils/ladder-utils.ts).              *)
(*                                                                         *)
(* A ladder element is a record [type, variable, position: [x, y]].  A     *)
(* rung is a record [elements: Seq(element), height].  ST text is modelled *)
(* as token sequences: an expression such as "(A OR NOT B) AND C" is       *)
(* <<"(", "A", "OR", "NOT", "B", ")", "AND", "C">>.  Variable names are     *)
(* identifiers (no blanks or parentheses), so the regular expressions of   *)
(* optimizeLogicExpression act on tokens exactly as on characters.         *)
(***************************************************************************)
EXTENDS Integers, Sequences, FiniteSets, TLC

VARIABLES
    rungs,        \* editor: the rung list handed to convertToSTLanguage
    stCode,       \* editor: the lines convertToSTLanguage returned, <<>> before
    pc,           \* editor: "input", "converted" after the first call of
                  \* convertToSTLanguage, "reconverted" after the second;
                  \* "detected" after detectParallelPaths; "simulating"
                  \* beside a simulator
    simRungs,     \* LadderSimulator.rungs
    isRunning,    \* LadderSimulator.state.isRunning
    intervalId,   \* LadderSimulator.intervalId (NoInterval is null)
    intervals,    \* the host's live setInterval registrations that call scan()
    variables,    \* the object LadderSimulator.state.variables refers to
    timers,       \* the object LadderSimulator.state.timers refers to
    counters,     \* the object LadderSimulator.state.counters refers to
    snapshot,     \* the last value getState() returned, or NoSnapshot
    lastOp,       \* history: "call" (a public method), "scan" (the interval
                  \* callback) or "write" (a client's write into a snapshot)
    enTicks,      \* history: per timer, the consecutive scans that saw its enable true
    latched,      \* history: the variables whose last write was a SET_COIL's
    preScan,      \* history: the state the last scan started from, when the
                  \* last step was a scan (NoPreScan otherwise)
    tickPos,      \* scan(): 0 while no scan is executing, else the index (from 1)
                  \* of the rung the executing scan reaches next
    edits,        \* history: the number of edits made to rungs
    parallelSections  \* editor: per rung, what detectParallelPaths returned,
                      \* <<>> before

vars == <<rungs, stCode, pc, simRungs, isRunning, intervalId, intervals,
          variables, timers, counters, snapshot, lastOp, enTicks, latched, preScan,
          tickPos, edits, parallelSections>>

synthVars == <<rungs, stCode, pc, edits, parallelSections>>
simVars == <<simRungs, isRunning, intervalId, intervals, variables, timers,
             counters, snapshot, lastOp, enTicks, latched, preScan, tickPos>>

----------------------------------------------------------------------------
(* Bounds of the model. *)

MaxCol == 2                \* columns 0..MaxCol of the 12-column grid
MaxContacts == 3           \* contacts in a rung
MaxJunctions == 2          \* junctions in a rung
MaxOutputs == 2            \* coils in a rung
MaxCoilRungContacts == 1   \* contacts in a rung that is drawn with every coil list
MaxOverrun == 2            \* scans a timer or counter keeps counting past its preset
MaxIntervals == 2          \* live setInterval registrations the host can hold

(* Program constants. *)
BranchStartX == 2          \* addParallelBranch(rung.id, 2)
BranchWidth == 3           \* end junction at startX + 3
BranchHeight == 2          \* height: Math.max(r.height, 2)
TimerPreset == 1000        \* preset: 1000
ScanIncrement == 100       \* timer.current += 100
CounterPreset == 10        \* preset: 10

----------------------------------------------------------------------------
(* Elements (ladder-elements LadderElementType, ladder-utils LadderElement) *)

InputTypes == {"NO_CONTACT", "NC_CONTACT"}
OutputTypes == {"OUTPUT_COIL", "SET_COIL", "RESET_COIL"}
WireTypes == {"WIRE_HORIZONTAL", "WIRE_VERTICAL", "WIRE_JUNCTION"}

Element(t, v, px, py) == [type |-> t, variable |-> v, position |-> [x |-> px, y |-> py]]

isInputElement(type) == type \in InputTypes

isOutputElement(type) == type \in OutputTypes

(* Array.prototype.filter *)
Filter(s, P(_)) == SelectSeq(s, P)

(* A variant of SortByX that leaves the list in its stored order.           *)
SortByX_unsorted(s) == s

(* Array.prototype.sort((a, b) => a.position.x - b.position.x): a stable   *)
(* sort, so elements of equal column keep their list order.                *)
RECURSIVE InsertByX(_, _)
InsertByX(sorted, el) ==
    IF sorted = <<>> THEN <<el>>
    ELSE IF Head(sorted).position.x <= el.position.x
         THEN <<Head(sorted)>> \o InsertByX(Tail(sorted), el)
         ELSE <<el>> \o sorted

RECURSIVE SortByX(_)
SortByX(s) ==
    IF s = <<>> THEN <<>>
    ELSE InsertByX(SortByX(SubSeq(s, 1, Len(s) - 1)), s[Len(s)])

(* Array.prototype.join(sep) on token sequences *)
RECURSIVE Join(_, _)
Join(parts, sep) ==
    IF parts = <<>> THEN <<>>
    ELSE IF Len(parts) = 1 THEN parts[1]
    ELSE parts[1] \o sep \o Join(Tail(parts), sep)

(* Array.prototype.map(el => convert(el)) *)
MapSeq(s, F(_)) == [i \in 1..Len(s) |-> F(s[i])]

(* The rows of a section in the order Object.values(pathsByY) lists them:  *)
(* integer keys in ascending order.                                        *)
RECURSIVE RowsAscending(_)
RowsAscending(S) ==
    IF S = {} THEN <<>>
    ELSE LET m == CHOOSE r \in S : \A q \in S : r <= q
         IN <<m>> \o RowsAscending(S \ {m})

(* pathsByY grouping followed by path.sort(by x) *)
PathsByY(sectionElements) ==
    LET rows == RowsAscending({sectionElements[i].position.y : i \in 1..Len(sectionElements)})
        path(r) == SortByX(Filter(sectionElements, LAMBDA el : el.position.y = r))
    IN [k \in 1..Len(rows) |-> path(rows[k])]

(* rung.elements sorted where it stands: rung.elements.sort(by x).         *)
elementsAfterAnalysis_inPlace(elements) == SortByX(elements)

(* rung.elements after an analysis of the rung. Every analysis reads it    *)
(* with filter() or forEach(); filter() and [...junctions] build new       *)
(* arrays, and each sort() reorders one of those.                          *)
elementsAfterAnalysis(elements) == elements

rungsAfterAnalysis(rs) ==
    [k \in 1..Len(rs) |-> [rs[k] EXCEPT !.elements = elementsAfterAnalysis(@)]]

(* detectParallelPaths(rung): per pair of adjacent junctions, the contacts *)
(* and coils from the first junction's column to the second's, by row;     *)
(* the pair is listed when they lie on more than one row.                  *)
detectParallelPaths(rung) ==
    LET junctions == Filter(rung.elements, LAMBDA el : el.type = "WIRE_JUNCTION")
        sortedJunctions == SortByX(junctions)
        section(i) ==
            LET startX == sortedJunctions[i].position.x
                endX == sortedJunctions[i + 1].position.x
                sectionElements ==
                    Filter(rung.elements,
                           LAMBDA el : /\ el.position.x >= startX
                                       /\ el.position.x <= endX
                                       /\ el.type \notin WireTypes
                                       /\ (isInputElement(el.type) \/ isOutputElement(el.type)))
            IN [startX |-> startX, endX |-> endX, paths |-> PathsByY(sectionElements)]
    IN IF Len(junctions) < 2 THEN <<>>
       ELSE Filter([i \in 1..(Len(sortedJunctions) - 1) |-> section(i)],
                   LAMBDA s : Len(s.paths) > 1)

----------------------------------------------------------------------------
(* ST synthesis *)

convertElementToST(element, requireParentheses) ==
    CASE element.type = "NO_CONTACT" -> <<element.variable>>
      [] element.type = "NC_CONTACT" ->
            IF requireParentheses THEN <<"(", "NOT", element.variable, ")">>
            ELSE <<"NOT", element.variable>>
      [] element.type = "OUTPUT_COIL" -> <<element.variable>>
      [] element.type = "SET_COIL" -> <<"SET", "(", element.variable, ")">>
      [] element.type = "RESET_COIL" -> <<"RESET", "(", element.variable, ")">>
      [] element.type = "TIMER_BLOCK" ->
            <<element.variable, "(", "IN", ":=", "TRUE", ",", "PT", ":=", "T#1S", ")">>
      [] element.type = "COUNTER_BLOCK" ->
            <<element.variable, "(", "CU", ":=", "TRUE", ",", "PV", ":=", "10", ")">>
      [] OTHER -> <<>>

analyzeSeriesCircuit(inputElements) ==
    LET expressions == MapSeq(inputElements, LAMBDA el : convertElementToST(el, FALSE))
    IN IF Len(expressions) = 0 THEN <<>>
       ELSE IF Len(expressions) = 1 THEN expressions[1]
       ELSE Join(expressions, <<"AND">>)

(* A variant of ParallelSectionST that joins the paths of a section with    *)
(* AND where the code joins them with OR.                                  *)
ParallelSectionST_and(inputElements, startX, endX) ==
    LET sectionElements ==
            Filter(inputElements, LAMBDA el : el.position.x > startX /\ el.position.x < endX)
        paths == PathsByY(sectionElements)
        pathST(p) == MapSeq(p, LAMBDA el : convertElementToST(el, FALSE))
        pathExpressions ==
            [k \in 1..Len(paths) |->
                IF Len(pathST(paths[k])) > 1
                THEN <<"(">> \o Join(pathST(paths[k]), <<"AND">>) \o <<")">>
                ELSE pathST(paths[k])[1]]
    IN IF Len(sectionElements) = 0 THEN <<>>
       ELSE IF Len(paths) = 1 THEN << Join(pathST(paths[1]), <<"AND">>) >>
       ELSE << <<"(">> \o Join(pathExpressions, <<"AND">>) \o <<")">> >>

(* The section strings of one junction interval (none, or one). *)
ParallelSectionST(inputElements, startX, endX) ==
    LET sectionElements ==
            Filter(inputElements, LAMBDA el : el.position.x > startX /\ el.position.x < endX)
        paths == PathsByY(sectionElements)
        pathST(p) == MapSeq(p, LAMBDA el : convertElementToST(el, FALSE))
        pathExpressions ==
            [k \in 1..Len(paths) |->
                IF Len(pathST(paths[k])) > 1
                THEN <<"(">> \o Join(pathST(paths[k]), <<"AND">>) \o <<")">>
                ELSE pathST(paths[k])[1]]
    IN IF Len(sectionElements) = 0 THEN <<>>
       ELSE IF Len(paths) = 1 THEN << Join(pathST(paths[1]), <<"AND">>) >>
       ELSE << <<"(">> \o Join(pathExpressions, <<"OR">>) \o <<")">> >>

RECURSIVE JunctionSectionsST(_, _, _)
JunctionSectionsST(inputElements, sortedJunctions, i) ==
    IF i > Len(sortedJunctions) - 1 THEN <<>>
    ELSE ParallelSectionST(inputElements, sortedJunctions[i].position.x,
                           sortedJunctions[i + 1].position.x)
         \o JunctionSectionsST(inputElements, sortedJunctions, i + 1)

analyzeParallelCircuit(rung, inputElements, junctions) ==
    LET sortedJunctions == SortByX(junctions)
        beforeFirstJunction ==
            Filter(inputElements, LAMBDA el : el.position.x < sortedJunctions[1].position.x)
        afterLastJunction ==
            Filter(inputElements,
                   LAMBDA el : el.position.x > sortedJunctions[Len(sortedJunctions)].position.x)
        sections ==
            MapSeq(beforeFirstJunction, LAMBDA el : convertElementToST(el, FALSE))
            \o JunctionSectionsST(inputElements, sortedJunctions, 1)
            \o MapSeq(afterLastJunction, LAMBDA el : convertElementToST(el, FALSE))
    IN IF Len(sortedJunctions) < 2 THEN analyzeSeriesCircuit(inputElements)
       ELSE IF Len(sections) = 0 THEN <<>>
       ELSE IF Len(sections) = 1 THEN sections[1]
       ELSE Join(sections, <<"AND">>)

analyzeRungLogic(rung) ==
    LET inputElements == SortByX(Filter(rung.elements, LAMBDA el : isInputElement(el.type)))
        wireJunctions == Filter(rung.elements, LAMBDA el : el.type = "WIRE_JUNCTION")
    IN IF Len(inputElements) = 0 THEN <<>>
       ELSE IF Len(wireJunctions) >= 2
            THEN analyzeParallelCircuit(rung, inputElements, wireJunctions)
            ELSE analyzeSeriesCircuit(inputElements)

(* The index of the first parenthesis token of e at or after i, or Len(e) + 1. *)
RECURSIVE NextParen(_, _)
NextParen(e, i) ==
    IF i > Len(e) THEN Len(e) + 1
    ELSE IF e[i] \in {"(", ")"} THEN i
    ELSE NextParen(e, i + 1)

(* A variant of the first replace that drops every parenthesis. *)
StripOuterParens_all(e) == SelectSeq(e, LAMBDA t : t \notin {"(", ")"})

(* The index of the first "(" of e at or after i that opens a group with   *)
(* no parenthesis inside, or 0.                                            *)
RECURSIVE FirstPlainGroup(_, _)
FirstPlainGroup(e, i) ==
    IF i > Len(e) THEN 0
    ELSE IF /\ e[i] = "("
            /\ NextParen(e, i + 1) <= Len(e)
            /\ NextParen(e, i + 1) > i + 1
            /\ e[NextParen(e, i + 1)] = ")"
         THEN i
    ELSE FirstPlainGroup(e, i + 1)

(* A variant of the first replace without the anchors: /\(([^()]+)\)/ -> $1 *)
StripOuterParens_unanchored(e) ==
    LET i == FirstPlainGroup(e, 1)
        j == NextParen(e, i + 1)
    IN IF i = 0 THEN e
       ELSE SubSeq(e, 1, i - 1) \o SubSeq(e, i + 1, j - 1) \o SubSeq(e, j + 1, Len(e))

(* optimizeLogicExpression, first replace: /^\(([^()]+)\)$/ -> $1 *)
StripOuterParens(e) ==
    IF /\ Len(e) >= 3
       /\ e[1] = "("
       /\ e[Len(e)] = ")"
       /\ \A i \in 2..(Len(e) - 1) : e[i] \notin {"(", ")"}
    THEN SubSeq(e, 2, Len(e) - 1)
    ELSE e

(* optimizeLogicExpression, second replace: /\(\(([^()]+)\)\)/g -> ($1) *)
RECURSIVE CollapseDoubleParens(_, _)
CollapseDoubleParens(e, i) ==
    IF i > Len(e) THEN <<>>
    ELSE LET j == NextParen(e, i + 2)
             matches == /\ i + 4 <= Len(e)
                        /\ e[i] = "(" /\ e[i + 1] = "("
                        /\ j >= i + 3 /\ j + 1 <= Len(e)
                        /\ e[j] = ")" /\ e[j + 1] = ")"
         IN IF matches
            THEN <<"(">> \o SubSeq(e, i + 2, j - 1) \o <<")">> \o CollapseDoubleParens(e, j + 2)
            ELSE <<e[i]>> \o CollapseDoubleParens(e, i + 1)

(* optimizeLogicExpression, third replace: /NOT\s+NOT\s+/g -> ''.  Tokens   *)
(* are rendered one blank apart, with no blank before a ")".                *)
RECURSIVE CollapseDoubleNot(_, _)
CollapseDoubleNot(e, i) ==
    IF i > Len(e) THEN <<>>
    ELSE IF /\ i + 2 <= Len(e)
            /\ e[i] = "NOT" /\ e[i + 1] = "NOT"
            /\ e[i + 2] # ")"
         THEN CollapseDoubleNot(e, i + 2)
         ELSE <<e[i]>> \o CollapseDoubleNot(e, i + 1)

optimizeLogicExpression(expression) ==
    CollapseDoubleNot(CollapseDoubleParens(StripOuterParens(expression), 1), 1)

Count(s, P(_)) == Len(Filter(s, P))

generateSTComment(rung, rungIndex) ==
    LET inputCount == Count(rung.elements, LAMBDA el : isInputElement(el.type))
        outputCount == Count(rung.elements, LAMBDA el : isOutputElement(el.type))
        junctionCount == Count(rung.elements, LAMBDA el : el.type = "WIRE_JUNCTION")
    IN <<"//", "Rung", ToString(rungIndex + 1)>> \o
       (IF junctionCount > 0
        THEN <<"(", "Parallel Circuit", ":", ToString(inputCount), "inputs", ",",
               ToString(outputCount), "outputs", ",", ToString(junctionCount), "junctions", ")">>
        ELSE <<"(", "Series Circuit", ":", ToString(inputCount), "inputs", ",",
               ToString(outputCount), "outputs", ")">>)

(* The statement lines convertToSTLanguage appends for one rung. *)
RungStatements(rung) ==
    LET logicExpression == analyzeRungLogic(rung)
        outputElements == Filter(rung.elements, LAMBDA el : isOutputElement(el.type))
        emitting == Filter(outputElements, LAMBDA el : convertElementToST(el, FALSE) # <<>>)
    IN IF logicExpression # <<>>
       THEN [k \in 1..Len(emitting) |->
                convertElementToST(emitting[k], FALSE) \o <<":=">>
                \o optimizeLogicExpression(logicExpression) \o <<";">>]
       ELSE <<>>

RECURSIVE RungLines(_, _)
RungLines(rs, index) ==
    IF index >= Len(rs) THEN <<>>
    ELSE <<generateSTComment(rs[index + 1], index)>>
         \o RungStatements(rs[index + 1])
         \o << <<>> >>
         \o RungLines(rs, index + 1)

(* A variant of the header line that tells at which point of the editor's  *)
(* life the text was generated.                                            *)
Header_stamped == <<"//", "Generated ST Code from Ladder Logic", "at", pc>>

(* The first line of the text: a fixed comment. *)
Header == <<"//", "Generated ST Code from Ladder Logic">>

(* The text as its lines; an empty line is <<>>. *)
convertToSTLanguage(rs) ==
    << Header, <<>> >> \o RungLines(rs, 0)

----------------------------------------------------------------------------
(* Simulation state: maps with absent keys (JS objects). *)

Get(m, k) == IF k \in DOMAIN m THEN m[k] ELSE FALSE

Put(m, k, v) == [n \in (DOMAIN m) \cup {k} |-> IF n = k THEN v ELSE m[n]]

EmptyMap == [n \in {} |-> FALSE]

evaluateElement(element, vs) ==
    CASE element.type = "NO_CONTACT" -> Get(vs, element.variable)
      [] element.type = "NC_CONTACT" -> ~Get(vs, element.variable)
      [] element.type = "TIMER_BLOCK" -> Get(vs, element.variable \o "_Q")
      [] element.type = "COUNTER_BLOCK" -> Get(vs, element.variable \o "_Q")
      [] OTHER -> TRUE

(* Array.prototype.every(el => this.evaluateElement(el)) *)
executeSeriesCircuit(inputElements, vs) ==
    \A i \in 1..Len(inputElements) : evaluateElement(inputElements[i], vs)

(* A variant of ParallelSectionResult that asks every path of a section to  *)
(* conduct where the code asks for some path.                              *)
ParallelSectionResult_every(inputElements, startX, endX, vs) ==
    LET sectionElements ==
            Filter(inputElements, LAMBDA el : el.position.x > startX /\ el.position.x < endX)
        paths == PathsByY(sectionElements)
        pathResults == [k \in 1..Len(paths) |-> executeSeriesCircuit(paths[k], vs)]
    IN IF Len(sectionElements) = 0 THEN <<>>
       ELSE IF Len(paths) = 1 THEN <<executeSeriesCircuit(paths[1], vs)>>
       ELSE << \A k \in 1..Len(pathResults) : pathResults[k] >>

(* A variant of the section filter that takes in the contacts standing on  *)
(* the section's start junction column.                                    *)
ParallelSectionResult_inclusive(inputElements, startX, endX, vs) ==
    LET sectionElements ==
            Filter(inputElements, LAMBDA el : el.position.x >= startX /\ el.position.x < endX)
        paths == PathsByY(sectionElements)
        pathResults == [k \in 1..Len(paths) |-> executeSeriesCircuit(paths[k], vs)]
    IN IF Len(sectionElements) = 0 THEN <<>>
       ELSE IF Len(paths) = 1 THEN <<executeSeriesCircuit(paths[1], vs)>>
       ELSE << \E k \in 1..Len(pathResults) : pathResults[k] >>

(* The results one junction interval pushes onto sectionResults. *)
ParallelSectionResult(inputElements, startX, endX, vs) ==
    LET sectionElements ==
            Filter(inputElements, LAMBDA el : el.position.x > startX /\ el.position.x < endX)
        paths == PathsByY(sectionElements)
        pathResults == [k \in 1..Len(paths) |-> executeSeriesCircuit(paths[k], vs)]
    IN IF Len(sectionElements) = 0 THEN <<>>
       ELSE IF Len(paths) = 1 THEN <<executeSeriesCircuit(paths[1], vs)>>
       ELSE << \E k \in 1..Len(pathResults) : pathResults[k] >>

RECURSIVE JunctionSectionResults(_, _, _, _)
JunctionSectionResults(inputElements, sortedJunctions, i, vs) ==
    IF i > Len(sortedJunctions) - 1 THEN <<>>
    ELSE ParallelSectionResult(inputElements, sortedJunctions[i].position.x,
                               sortedJunctions[i + 1].position.x, vs)
         \o JunctionSectionResults(inputElements, sortedJunctions, i + 1, vs)

executeParallelCircuit(rung, inputElements, junctions, vs) ==
    LET sortedJunctions == SortByX(junctions)
        beforeFirstJunction ==
            Filter(inputElements, LAMBDA el : el.position.x < sortedJunctions[1].position.x)
        afterLastJunction ==
            Filter(inputElements,
                   LAMBDA el : el.position.x > sortedJunctions[Len(sortedJunctions)].position.x)
        sectionResults ==
            (IF Len(beforeFirstJunction) > 0
             THEN <<executeSeriesCircuit(beforeFirstJunction, vs)>> ELSE <<>>)
            \o JunctionSectionResults(inputElements, sortedJunctions, 1, vs)
            \o (IF Len(afterLastJunction) > 0
                THEN <<executeSeriesCircuit(afterLastJunction, vs)>> ELSE <<>>)
    IN IF Len(sortedJunctions) < 2 THEN executeSeriesCircuit(inputElements, vs)
       ELSE \A k \in 1..Len(sectionResults) : sectionResults[k]

(* A variant of applyOutput whose SET_COIL assigns the condition, as an     *)
(* OUTPUT_COIL does.                                                       *)
applyOutput_assign(element, condition, vs) ==
    CASE element.type = "OUTPUT_COIL" -> Put(vs, element.variable, condition)
      [] element.type = "SET_COIL" -> Put(vs, element.variable, condition)
      [] element.type = "RESET_COIL" ->
            IF condition THEN Put(vs, element.variable, FALSE) ELSE vs
      [] element.type = "TIMER_BLOCK" -> Put(vs, element.variable \o "_EN", condition)
      [] element.type = "COUNTER_BLOCK" -> Put(vs, element.variable \o "_CU", condition)
      [] OTHER -> vs

applyOutput(element, condition, vs) ==
    CASE element.type = "OUTPUT_COIL" -> Put(vs, element.variable, condition)
      [] element.type = "SET_COIL" ->
            IF condition THEN Put(vs, element.variable, TRUE) ELSE vs
      [] element.type = "RESET_COIL" ->
            IF condition THEN Put(vs, element.variable, FALSE) ELSE vs
      [] element.type = "TIMER_BLOCK" -> Put(vs, element.variable \o "_EN", condition)
      [] element.type = "COUNTER_BLOCK" -> Put(vs, element.variable \o "_CU", condition)
      [] OTHER -> vs

(* outputElements.forEach(output => this.applyOutput(output, condition)) *)
RECURSIVE ApplyOutputs(_, _, _)
ApplyOutputs(outputElements, condition, vs) ==
    IF outputElements = <<>> THEN vs
    ELSE ApplyOutputs(Tail(outputElements), condition,
                      applyOutput(Head(outputElements), condition, vs))

(* executeRung up to the point where it applies the outputs: whether the   *)
(* rung has input elements, and the finalResult it computes when it has.   *)
RungInputs(rung) == SortByX(Filter(rung.elements, LAMBDA el : isInputElement(el.type)))

finalResult(rung, vs) ==
    LET inputElements == RungInputs(rung)
        wireJunctions == Filter(rung.elements, LAMBDA el : el.type = "WIRE_JUNCTION")
    IN IF Len(wireJunctions) >= 2
       THEN executeParallelCircuit(rung, inputElements, wireJunctions, vs)
       ELSE executeSeriesCircuit(inputElements, vs)

(* A variant of executeRung without the early return for a rung that has   *)
(* no input elements.                                                      *)
executeRung_noEarlyReturn(rung, vs) ==
    LET outputElements == Filter(rung.elements, LAMBDA el : isOutputElement(el.type))
    IN ApplyOutputs(outputElements, finalResult(rung, vs), vs)

(* A variant of executeRung that holds its outputs back until the scan is  *)
(* over.                                                                   *)
executeRung_deferred(rung, vs) == vs

executeRung(rung, vs) ==
    LET outputElements == Filter(rung.elements, LAMBDA el : isOutputElement(el.type))
    IN IF Len(RungInputs(rung)) = 0
       THEN ApplyOutputs(outputElements, FALSE, vs)
       ELSE ApplyOutputs(outputElements, finalResult(rung, vs), vs)

----------------------------------------------------------------------------
(* The truth value of an ST boolean expression under an assignment env of  *)
(* its variables: NOT binds tighter than AND, AND tighter than OR.         *)
(* A parse returns [ok, v, p]: success, value, index of the next token.    *)

ParseError == [ok |-> FALSE, v |-> FALSE, p |-> 0]

STKeywords == {"(", ")", "AND", "OR", "NOT", ":=", ";"}

RECURSIVE ParseOr(_, _, _), ParseAnd(_, _, _), ParseNot(_, _, _)
RECURSIVE OrTail(_, _, _), AndTail(_, _, _)

ParseNot(t, i, env) ==
    IF i > Len(t) THEN ParseError
    ELSE IF t[i] = "NOT"
         THEN LET r == ParseNot(t, i + 1, env)
              IN [ok |-> r.ok, v |-> ~r.v, p |-> r.p]
    ELSE IF t[i] = "("
         THEN LET r == ParseOr(t, i + 1, env)
              IN IF r.ok /\ r.p <= Len(t) /\ t[r.p] = ")"
                 THEN [ok |-> TRUE, v |-> r.v, p |-> r.p + 1]
                 ELSE ParseError
    ELSE IF t[i] \in STKeywords THEN ParseError
    ELSE [ok |-> TRUE, v |-> Get(env, t[i]), p |-> i + 1]

AndTail(t, l, env) ==
    IF l.ok /\ l.p <= Len(t) /\ t[l.p] = "AND"
    THEN LET r == ParseNot(t, l.p + 1, env)
         IN AndTail(t, [ok |-> r.ok, v |-> l.v /\ r.v, p |-> r.p], env)
    ELSE l

ParseAnd(t, i, env) == AndTail(t, ParseNot(t, i, env), env)

OrTail(t, l, env) ==
    IF l.ok /\ l.p <= Len(t) /\ t[l.p] = "OR"
    THEN LET r == ParseAnd(t, l.p + 1, env)
         IN OrTail(t, [ok |-> r.ok, v |-> l.v \/ r.v, p |-> r.p], env)
    ELSE l

ParseOr(t, i, env) == OrTail(t, ParseAnd(t, i, env), env)

WellFormedST(t) == LET r == ParseOr(t, 1, EmptyMap) IN r.ok /\ r.p = Len(t) + 1

EvalST(t, env) == ParseOr(t, 1, env).v

----------------------------------------------------------------------------
(* LadderSimulator *)

NoInterval == 0
NoSnapshot == [isRunning |-> "none"]

initializeElement(st, element) ==
    IF element.variable = "" \/ element.variable = "WIRE" THEN st
    ELSE CASE element.type \in InputTypes \cup OutputTypes ->
                [st EXCEPT !.variables = Put(@, element.variable, FALSE)]
           [] element.type = "TIMER_BLOCK" ->
                [st EXCEPT !.timers =
                    Put(@, element.variable,
                        [current |-> 0, preset |-> TimerPreset, done |-> FALSE])]
           [] element.type = "COUNTER_BLOCK" ->
                [st EXCEPT !.counters =
                    Put(@, element.variable,
                        [current |-> 0, preset |-> CounterPreset, done |-> FALSE])]
           [] OTHER -> st

RECURSIVE initializeElements(_, _)
initializeElements(st, elements) ==
    IF elements = <<>> THEN st
    ELSE initializeElements(initializeElement(st, Head(elements)), Tail(elements))

RECURSIVE initializeRungs(_, _)
initializeRungs(st, rs) ==
    IF rs = <<>> THEN st
    ELSE initializeRungs(initializeElements(st, Head(rs).elements), Tail(rs))

initializeVariables(rs) ==
    initializeRungs([variables |-> EmptyMap, timers |-> EmptyMap, counters |-> EmptyMap], rs)

(* A variant of scanTimer whose done flag waits until the accumulated time  *)
(* exceeds the preset.                                                     *)
scanTimer_late(st, timerVar) ==
    LET timer == st.timers[timerVar]
        current == IF Get(st.variables, timerVar \o "_EN")
                   THEN timer.current + ScanIncrement ELSE 0
        done == IF Get(st.variables, timerVar \o "_EN")
                THEN current > timer.preset ELSE FALSE
    IN [st EXCEPT !.timers[timerVar] = [timer EXCEPT !.current = current, !.done = done],
                  !.variables = Put(@, timerVar \o "_Q", done)]

(* One timer of scan's first loop. *)
scanTimer(st, timerVar) ==
    LET timer == st.timers[timerVar]
        current == IF Get(st.variables, timerVar \o "_EN")
                   THEN timer.current + ScanIncrement ELSE 0
        done == IF Get(st.variables, timerVar \o "_EN")
                THEN current >= timer.preset ELSE FALSE
    IN [st EXCEPT !.timers[timerVar] = [timer EXCEPT !.current = current, !.done = done],
                  !.variables = Put(@, timerVar \o "_Q", done)]

(* A variant of scanCounter whose done flag falls on a tick that does not  *)
(* count.                                                                  *)
scanCounter_unlatched(st, counterVar) ==
    LET counter == st.counters[counterVar]
        up == Get(st.variables, counterVar \o "_CU")
        counted == IF up THEN [counter EXCEPT !.current = @ + 1,
                                              !.done = counter.current + 1 >= counter.preset]
                   ELSE [counter EXCEPT !.done = FALSE]
        vs1 == Put(st.variables, counterVar \o "_Q", counted.done)
        reset == Get(vs1, counterVar \o "_R")
    IN [st EXCEPT !.counters[counterVar] =
                      IF reset THEN [counted EXCEPT !.current = 0, !.done = FALSE]
                      ELSE counted,
                  !.variables = IF reset THEN Put(vs1, counterVar \o "_Q", FALSE) ELSE vs1]

(* A variant of scanCounter that resets first and counts up afterwards. *)
scanCounter_resetFirst(st, counterVar) ==
    LET counter == st.counters[counterVar]
        reset == Get(st.variables, counterVar \o "_R")
        cleared == IF reset THEN [counter EXCEPT !.current = 0, !.done = FALSE]
                   ELSE counter
        vs1 == IF reset THEN Put(st.variables, counterVar \o "_Q", FALSE)
               ELSE st.variables
        up == Get(vs1, counterVar \o "_CU")
    IN [st EXCEPT !.counters[counterVar] =
                      IF up THEN [cleared EXCEPT !.current = @ + 1,
                                                 !.done = cleared.current + 1 >= cleared.preset]
                      ELSE cleared,
                  !.variables =
                      IF up THEN Put(vs1, counterVar \o "_Q",
                                     cleared.current + 1 >= cleared.preset)
                      ELSE vs1]

(* One counter of scan's second loop: count up, then reset. *)
scanCounter(st, counterVar) ==
    LET counter == st.counters[counterVar]
        up == Get(st.variables, counterVar \o "_CU")
        counted == IF up THEN [counter EXCEPT !.current = @ + 1,
                                              !.done = counter.current + 1 >= counter.preset]
                   ELSE counter
        vs1 == IF up THEN Put(st.variables, counterVar \o "_Q", counted.done)
               ELSE st.variables
        reset == Get(vs1, counterVar \o "_R")
    IN [st EXCEPT !.counters[counterVar] =
                      IF reset THEN [counted EXCEPT !.current = 0, !.done = FALSE]
                      ELSE counted,
                  !.variables = IF reset THEN Put(vs1, counterVar \o "_Q", FALSE) ELSE vs1]

(* Object.keys(this.state.timers).forEach(...): each key once. *)
RECURSIVE scanTimers(_, _)
scanTimers(st, keys) ==
    IF keys = {} THEN st
    ELSE LET k == CHOOSE n \in keys : TRUE
         IN scanTimers(scanTimer(st, k), keys \ {k})

(* Object.keys(this.state.counters).forEach(...): each key once. *)
RECURSIVE scanCounters(_, _)
scanCounters(st, keys) ==
    IF keys = {} THEN st
    ELSE LET k == CHOOSE n \in keys : TRUE
         IN scanCounters(scanCounter(st, k), keys \ {k})

(* A variant of executeRungs that takes the rungs from the last to the first. *)
RECURSIVE executeRungs_lastFirst(_, _)
executeRungs_lastFirst(vs, rs) ==
    IF rs = <<>> THEN vs
    ELSE executeRungs_lastFirst(executeRung(rs[Len(rs)], vs), SubSeq(rs, 1, Len(rs) - 1))

(* this.rungs.forEach(rung => this.executeRung(rung)) *)
RECURSIVE executeRungs(_, _)
executeRungs(vs, rs) ==
    IF rs = <<>> THEN vs
    ELSE executeRungs(executeRung(Head(rs), vs), Tail(rs))

scan(st, rs) ==
    LET afterTimers == scanTimers(st, DOMAIN st.timers)
        afterCounters == scanCounters(afterTimers, DOMAIN afterTimers.counters)
    IN [afterCounters EXCEPT !.variables = executeRungs(@, rs)]

(* The simulation state scan() works on. *)
State == [variables |-> variables, timers |-> timers, counters |-> counters]

NoPreScan == [variables |-> EmptyMap, timers |-> EmptyMap, counters |-> EmptyMap,
              latched |-> {}]

(* The writes of one scan, step by step. *)

AfterTimers(st) == scanTimers(st, DOMAIN st.timers)

AfterCounters(st) == scanCounters(AfterTimers(st), DOMAIN st.counters)

(* The _Q variables the timer loop writes: one per timer, on every scan. *)
TimerStepWrites(st) == {t \o "_Q" : t \in DOMAIN st.timers}

(* The _Q variables the counter loop writes: those of the counters whose   *)
(* count-up or reset variable is true.                                     *)
CounterStepWrites(st) ==
    {c \o "_Q" : c \in {k \in DOMAIN st.counters :
                            \/ Get(AfterTimers(st).variables, k \o "_CU")
                            \/ Get(AfterTimers(st).variables, k \o "_R")}}

(* The variables as rung k (1-based) finds them. *)
VarsBeforeRung(st, rs, k) == executeRungs(AfterCounters(st).variables, SubSeq(rs, 1, k - 1))

(* The condition executeRung hands to applyOutput for rung k. *)
RungCondition(st, rs, k) ==
    IF Len(RungInputs(rs[k])) = 0 THEN FALSE
    ELSE finalResult(rs[k], VarsBeforeRung(st, rs, k))

(* The assignments the coils of rung k make, in element order: an          *)
(* OUTPUT_COIL always writes the condition, a SET_COIL writes true and a   *)
(* RESET_COIL writes false when the condition is true.                     *)
CoilWritesOfRung(st, rs, k) ==
    LET outs == Filter(rs[k].elements, LAMBDA el : isOutputElement(el.type))
        c == RungCondition(st, rs, k)
        write(el) == [variable |-> el.variable, by |-> el.type,
                      value |-> IF el.type = "OUTPUT_COIL" THEN c ELSE el.type = "SET_COIL"]
    IN Filter(MapSeq(outs, write), LAMBDA w : w.by = "OUTPUT_COIL" \/ c)

RECURSIVE CoilWritesFrom(_, _, _)
CoilWritesFrom(st, rs, k) ==
    IF k > Len(rs) THEN <<>>
    ELSE CoilWritesOfRung(st, rs, k) \o CoilWritesFrom(st, rs, k + 1)

CoilWrites(st, rs) == CoilWritesFrom(st, rs, 1)

WritesTo(st, rs, v) == Filter(CoilWrites(st, rs), LAMBDA w : w.variable = v)

(* The variables some step of the scan writes. *)
WrittenInScan(st, rs) ==
    TimerStepWrites(st) \cup CounterStepWrites(st)
    \cup {CoilWrites(st, rs)[i].variable : i \in 1..Len(CoilWrites(st, rs))}

(* The variables whose last write in the scan is a SET_COIL's. *)
SetInScan(st, rs) ==
    {v \in WrittenInScan(st, rs) :
        /\ WritesTo(st, rs, v) # <<>>
        /\ WritesTo(st, rs, v)[Len(WritesTo(st, rs, v))].by = "SET_COIL"}

(* The simulator's own fields isRunning, intervalId and the host's timer   *)
(* table, as start() and stop() read and write them.                       *)
Lifecycle == [isRunning |-> isRunning, intervalId |-> intervalId, intervals |-> intervals]

FreeIntervals(sim) == (1..MaxIntervals) \ sim.intervals

(* A variant of start without the isRunning guard. *)
start_unguarded(sim) ==
    IF FreeIntervals(sim) = {} THEN sim
    ELSE LET id == CHOOSE i \in FreeIntervals(sim) : \A j \in FreeIntervals(sim) : i <= j
         IN [isRunning |-> TRUE, intervalId |-> id, intervals |-> sim.intervals \cup {id}]

start(sim) ==
    IF sim.isRunning THEN sim
    ELSE LET id == CHOOSE i \in FreeIntervals(sim) : \A j \in FreeIntervals(sim) : i <= j
         IN [isRunning |-> TRUE, intervalId |-> id, intervals |-> sim.intervals \cup {id}]

(* A variant of stop that clears isRunning and leaves the interval alive. *)
stop_keepsInterval(sim) ==
    IF ~sim.isRunning THEN sim ELSE [sim EXCEPT !.isRunning = FALSE]

stop(sim) ==
    IF ~sim.isRunning THEN sim
    ELSE IF sim.intervalId # NoInterval
         THEN [isRunning |-> FALSE, intervalId |-> NoInterval,
               intervals |-> sim.intervals \ {sim.intervalId}]
         ELSE [sim EXCEPT !.isRunning = FALSE]

(* A variant of start and stop that runs initializeVariables again. *)
stateAcrossStartStop_initialized(st, rs) == initializeVariables(rs)

(* state.variables, state.timers and state.counters across start() and    *)
(* stop(): both assign state.isRunning and intervalId only.                *)
stateAcrossStartStop(st, rs) == st

setVariable(vs, variable, value) == Put(vs, variable, value)

(* { ...this.state }: a new object holding the boolean and the three       *)
(* references of this.state.                                               *)
getState == [isRunning |-> isRunning, variables |-> "state.variables",
             timers |-> "state.timers", counters |-> "state.counters"]

(* The object a reference held by a snapshot leads to. *)
Deref(ref) ==
    CASE ref = "state.variables" -> variables
      [] ref = "state.timers" -> timers
      [] ref = "state.counters" -> counters

(* What a client reads through the value getState() returned. *)
SnapshotView ==
    [isRunning |-> snapshot.isRunning, variables |-> Deref(snapshot.variables),
     timers |-> Deref(snapshot.timers), counters |-> Deref(snapshot.counters)]

----------------------------------------------------------------------------
(* The simulator's operations. *)

(* A variant in which a scan can be preempted between its steps. *)
callbackMayRun_preempting(pos) == TRUE

(* A callback or a call of the editor is taken up only when no scan is     *)
(* executing: scan() is synchronous, it neither awaits nor yields.         *)
callbackMayRun(pos) == pos = 0

Start ==
    /\ callbackMayRun(tickPos)
    /\ isRunning \/ FreeIntervals(Lifecycle) # {}
    /\ isRunning' = start(Lifecycle).isRunning
    /\ intervalId' = start(Lifecycle).intervalId
    /\ intervals' = start(Lifecycle).intervals
    /\ variables' = stateAcrossStartStop(State, simRungs).variables
    /\ timers' = stateAcrossStartStop(State, simRungs).timers
    /\ counters' = stateAcrossStartStop(State, simRungs).counters
    /\ lastOp' = "call"
    /\ preScan' = NoPreScan
    /\ UNCHANGED <<synthVars, tickPos, simRungs, snapshot, enTicks, latched>>

Stop ==
    /\ callbackMayRun(tickPos)
    /\ isRunning' = stop(Lifecycle).isRunning
    /\ intervalId' = stop(Lifecycle).intervalId
    /\ intervals' = stop(Lifecycle).intervals
    /\ variables' = stateAcrossStartStop(State, simRungs).variables
    /\ timers' = stateAcrossStartStop(State, simRungs).timers
    /\ counters' = stateAcrossStartStop(State, simRungs).counters
    /\ lastOp' = "call"
    /\ preScan' = NoPreScan
    /\ UNCHANGED <<synthVars, tickPos, simRungs, snapshot, enTicks, latched>>

(* setVariable(name, value); the names are those the state already holds,  *)
(* as in the editor's panel, which lists Object.entries(state.variables).  *)
SetVariable ==
    \E name \in DOMAIN variables, value \in BOOLEAN :
        /\ callbackMayRun(tickPos)
        /\ variables' = setVariable(variables, name, value)
        /\ lastOp' = "call"
        /\ latched' = latched \ {name}
        /\ preScan' = NoPreScan
        /\ UNCHANGED <<synthVars, tickPos, simRungs, isRunning, intervalId, intervals,
                       timers, counters, snapshot, enTicks>>

GetState ==
    /\ callbackMayRun(tickPos)
    /\ snapshot' = getState
    /\ lastOp' = "call"
    /\ preScan' = NoPreScan
    /\ UNCHANGED <<synthVars, tickPos, simRungs, isRunning, intervalId, intervals,
                   variables, timers, counters, enTicks, latched>>

(* A timer or counter that would count further than MaxOverrun past its preset. *)
Overrun ==
    \/ \E t \in DOMAIN timers :
          /\ Get(variables, t \o "_EN")
          /\ timers[t].current >= TimerPreset + MaxOverrun * ScanIncrement
    \/ \E c \in DOMAIN counters :
          /\ Get(variables, c \o "_CU")
          /\ counters[c].current >= CounterPreset + MaxOverrun

(* The callback of a live interval: one scan, run to completion. *)
Scan ==
    /\ callbackMayRun(tickPos)
    /\ intervals # {}
    /\ ~Overrun
    /\ LET st == scan(State, simRungs)
       IN /\ variables' = st.variables
          /\ timers' = st.timers
          /\ counters' = st.counters
    /\ enTicks' = [t \in DOMAIN timers |->
                      IF Get(variables, t \o "_EN") THEN enTicks[t] + 1 ELSE 0]
    /\ latched' = (latched \ WrittenInScan(State, simRungs)) \cup SetInScan(State, simRungs)
    /\ preScan' = [variables |-> variables, timers |-> timers, counters |-> counters,
                   latched |-> latched]
    /\ lastOp' = "scan"
    /\ simRungs' = rungsAfterAnalysis(simRungs)
    /\ UNCHANGED <<synthVars, tickPos, isRunning, intervalId, intervals, snapshot>>

(* A client assigning into the variables of the value getState() returned. *)
ClientWrite ==
    /\ callbackMayRun(tickPos)
    /\ snapshot # NoSnapshot
    /\ snapshot.variables = "state.variables"
    /\ \E name \in DOMAIN variables, value \in BOOLEAN :
          /\ variables' = Put(variables, name, value)
          /\ latched' = latched \ {name}
    /\ lastOp' = "write"
    /\ preScan' = NoPreScan
    /\ UNCHANGED <<synthVars, tickPos, simRungs, isRunning, intervalId, intervals,
                   timers, counters, snapshot, enTicks>>

----------------------------------------------------------------------------
(* The programs the simulator is constructed with. *)

Rung(elements) == [elements |-> elements, height |-> BranchHeight]

(* A contact at column 1 and a coil at column 6 as in the editor's first   *)
(* rung, with the elements middle between them.                            *)
SimRung(contactType, contactVar, middle, coilType, coilVar) ==
    Rung(<<Element(contactType, contactVar, 1, 0)>> \o middle
         \o <<Element(coilType, coilVar, 6, 0)>>)

(* Two coils on one variable, which is an output or the done flag of the   *)
(* timer T1 placed in the first rung.                                      *)
LatchPrograms ==
    { << SimRung("NO_CONTACT", "X1", <<Element("TIMER_BLOCK", "T1", 3, 0)>>, c1, v),
         SimRung("NO_CONTACT", "X2", <<>>, c2, v) >> :
        c1 \in OutputTypes, c2 \in OutputTypes, v \in {"Y", "T1_Q"} }

(* A timer enabled by a coil on T1_EN, its done flag read by a contact. *)
TimerPrograms ==
    { << SimRung(t, "X1", <<Element("TIMER_BLOCK", "T1", 3, 0)>>, "OUTPUT_COIL", "T1_EN"),
         SimRung("NO_CONTACT", "T1_Q", <<>>, "OUTPUT_COIL", "Y") >> :
        t \in InputTypes }

(* A counter driven by coils on C1_CU and C1_R, with or without a coil on  *)
(* its done flag C1_Q.                                                     *)
CounterPrograms ==
    { << SimRung("NO_CONTACT", "X1", <<Element("COUNTER_BLOCK", "C1", 3, 0)>>,
                 "OUTPUT_COIL", "C1_CU"),
         SimRung("NO_CONTACT", "X2", <<>>, "OUTPUT_COIL", "C1_R") >> \o tail :
        tail \in { <<>>, << SimRung("NO_CONTACT", "X3", <<>>, "OUTPUT_COIL", "C1_Q") >> } }

(* A rung of coils with no contact, below a rung that drives one of the    *)
(* variables those coils name.                                             *)
CoilOnlyPrograms ==
    { << SimRung("NO_CONTACT", "X1", <<>>, c1, v),
         Rung(<< Element("OUTPUT_COIL", "Y", 6, 0), Element(c2, "Z", 7, 0) >>) >> :
        c1 \in {"OUTPUT_COIL", "SET_COIL"}, v \in {"Y", "Z"},
        c2 \in {"SET_COIL", "RESET_COIL"} }

SimPrograms == LatchPrograms \cup TimerPrograms \cup CounterPrograms \cup CoilOnlyPrograms

(* new LadderSimulator(rungs), for the rung lists of a family *)
InitAt(programs, at) ==
    /\ simRungs \in programs
    /\ rungs = simRungs
    /\ stCode = <<>>
    /\ pc = at
    /\ isRunning = FALSE
    /\ intervalId = NoInterval
    /\ intervals = {}
    /\ variables = initializeVariables(simRungs).variables
    /\ timers = initializeVariables(simRungs).timers
    /\ counters = initializeVariables(simRungs).counters
    /\ snapshot = NoSnapshot
    /\ lastOp = "call"
    /\ enTicks = [t \in DOMAIN initializeVariables(simRungs).timers |-> 0]
    /\ latched = {}
    /\ preScan = NoPreScan
    /\ tickPos = 0
    /\ edits = 0
    /\ parallelSections = <<>>

InitWith(programs) == InitAt(programs, "simulating")

Init == InitWith(SimPrograms)

Next == Start \/ Stop \/ SetVariable \/ GetState \/ Scan

Spec == Init /\ [][Next]_vars

(* The simulator with a client that also writes into the value getState()  *)
(* returned.                                                               *)
NextClient == Start \/ Stop \/ SetVariable \/ GetState \/ Scan \/ ClientWrite

SpecClient == Init /\ [][NextClient]_vars

(* The scan taken step by step: the timer and counter loops, then one      *)
(* step per rung, on the simulator's own state.                            *)
ScanBegin ==
    /\ callbackMayRun(tickPos)
    /\ intervals # {}
    /\ ~Overrun
    /\ LET st == AfterCounters(State)
       IN /\ variables' = st.variables
          /\ timers' = st.timers
          /\ counters' = st.counters
    /\ tickPos' = IF simRungs = <<>> THEN 0 ELSE 1
    /\ enTicks' = [t \in DOMAIN timers |->
                      IF Get(variables, t \o "_EN") THEN enTicks[t] + 1 ELSE 0]
    /\ latched' = (latched \ WrittenInScan(State, simRungs)) \cup SetInScan(State, simRungs)
    /\ preScan' = [variables |-> variables, timers |-> timers, counters |-> counters,
                   latched |-> latched]
    /\ lastOp' = "scan"
    /\ UNCHANGED <<synthVars, simRungs, isRunning, intervalId, intervals, snapshot>>

(* this.rungs.forEach(rung => this.executeRung(rung)), one rung *)
ScanRung ==
    /\ tickPos \in 1..Len(simRungs)
    /\ variables' = executeRung(simRungs[tickPos], variables)
    /\ tickPos' = IF tickPos = Len(simRungs) THEN 0 ELSE tickPos + 1
    /\ lastOp' = "scan"
    /\ simRungs' = [simRungs EXCEPT ![tickPos].elements = elementsAfterAnalysis(@)]
    /\ UNCHANGED <<synthVars, isRunning, intervalId, intervals, timers,
                   counters, snapshot, enTicks, latched, preScan>>

NextSteps == Start \/ Stop \/ SetVariable \/ GetState \/ ScanBegin \/ ScanRung

(* Two rungs that read one input, the second through either contact type   *)
(* and into any coil.                                                      *)
SharedInputPrograms ==
    { << SimRung(t1, "X1", <<>>, "OUTPUT_COIL", "Y"),
         SimRung(t2, "X1", <<>>, c, "Z") >> :
        t1 \in InputTypes, t2 \in InputTypes, c \in OutputTypes }

(* Two rungs each of which reads the variable the other's coil writes. *)
FeedbackPrograms ==
    { << SimRung(t1, "Z", <<>>, "OUTPUT_COIL", "Y"),
         SimRung(t2, "Y", <<>>, "OUTPUT_COIL", "Z") >> :
        t1 \in InputTypes, t2 \in InputTypes }

(* A counter driven by a coil on C1_CU, its done flag read by a contact. *)
CounterReadPrograms ==
    { << SimRung("NO_CONTACT", "X1", <<Element("COUNTER_BLOCK", "C1", 3, 0)>>,
                 "OUTPUT_COIL", "C1_CU"),
         SimRung(t, "C1_Q", <<>>, "OUTPUT_COIL", "Y") >> :
        t \in InputTypes }

InitSteps == InitWith(SharedInputPrograms \cup TimerPrograms)

(* The scan step by step on programs whose rungs read what the steps       *)
(* before them write.                                                      *)
InitOrder == InitWith(FeedbackPrograms \cup TimerPrograms \cup CounterReadPrograms)

SpecOrder == InitOrder /\ [][NextSteps]_vars

SpecSteps == InitSteps /\ [][NextSteps]_vars

----------------------------------------------------------------------------
(* The rungs convertToSTLanguage is applied to. *)

(* The i-th contact of a rung's element list reads the i-th of these, the  *)
(* k-th coil writes the k-th of those.                                     *)
ContactVars == <<"A", "B", "C", "D", "E">>
CoilVars == <<"Y", "Z", "W", "V">>

SeqsUpTo(S, n) == UNION {[1..k -> S] : k \in 0..n}

Reverse(s) == [i \in 1..Len(s) |-> s[Len(s) + 1 - i]]

(* The cells of columns x0..x1 and rows 0..BranchHeight-1 in row-major order. *)
Cells(x0, x1) ==
    [i \in 1..((x1 - x0 + 1) * BranchHeight) |->
        [x |-> x0 + ((i - 1) % (x1 - x0 + 1)), y |-> (i - 1) \div (x1 - x0 + 1)]]

(* What a cell holds: nothing, or a contact of a type. *)
Layouts(cells) ==
    {f \in [1..Len(cells) -> {"empty"} \cup InputTypes] :
        Cardinality({i \in 1..Len(cells) : f[i] # "empty"}) <= MaxContacts}

RECURSIVE Placed(_, _, _)
Placed(cells, layout, i) ==
    IF i > Len(cells) THEN <<>>
    ELSE (IF layout[i] = "empty" THEN <<>>
          ELSE << [type |-> layout[i], position |-> cells[i]] >>)
         \o Placed(cells, layout, i + 1)

(* The contacts of a layout, listed in row-major order or in the reverse   *)
(* of it.                                                                  *)
ContactList(cells, layout, reversed) ==
    LET placed == IF reversed THEN Reverse(Placed(cells, layout, 1))
                  ELSE Placed(cells, layout, 1)
    IN [i \in 1..Len(placed) |->
           Element(placed[i].type, ContactVars[i],
                   placed[i].position.x, placed[i].position.y)]

RECURSIVE Descending(_)
Descending(S) ==
    IF S = {} THEN <<>>
    ELSE LET m == CHOOSE r \in S : \A q \in S : r >= q
         IN <<m>> \o Descending(S \ {m})

(* Junctions in row 0 at up to MaxJunctions columns, rightmost first. *)
JunctionLists ==
    { [i \in 1..Cardinality(J) |-> Element("WIRE_JUNCTION", "WIRE", Descending(J)[i], 0)] :
        J \in {K \in SUBSET (0..MaxCol) : Cardinality(K) <= MaxJunctions} }

Coils(types) ==
    [k \in 1..Len(types) |->
        Element(types[k], CoilVars[k], MaxCol + BranchStartX + BranchWidth + k, 0)]

(* The elements addParallelBranch(rungId, startX) appends. *)
ParallelBranch(startX) ==
    << Element("WIRE_JUNCTION", "JUNCTION_START", startX, 0),
       Element("WIRE_JUNCTION", "JUNCTION_END", startX + BranchWidth, 0) >>
    \o [i \in 1..(BranchWidth + 1) |->
            Element("WIRE_HORIZONTAL", "WIRE_PARALLEL", startX + i - 1, 1)]
    \o << Element("WIRE_VERTICAL", "WIRE_VERTICAL_START", startX, 0),
          Element("WIRE_VERTICAL", "WIRE_VERTICAL_END", startX + BranchWidth, 0) >>

(* A junction and contact layout of the grid with one output coil. *)
LayoutRung(junctions, layout, reversed) ==
    Rung(junctions \o ContactList(Cells(0, MaxCol), layout, reversed)
         \o Coils(<<"OUTPUT_COIL">>))

(* A coil list behind contacts in series. *)
CoilRung(contactTypes, coilTypes) ==
    Rung([i \in 1..Len(contactTypes) |-> Element(contactTypes[i], ContactVars[i], i - 1, 0)]
         \o Coils(coilTypes))

(* The cells from the column before the editor's parallel branch to the    *)
(* column behind it.                                                       *)
BranchCells == Cells(BranchStartX - 1, BranchStartX + BranchWidth + 1)

(* The editor's parallel branch with contacts before, on, between and      *)
(* behind its junctions.                                                   *)
BranchRung(layout, reversed) ==
    Rung(ParallelBranch(BranchStartX) \o ContactList(BranchCells, layout, reversed)
         \o Coils(<<"OUTPUT_COIL">>))

InitSynth ==
    /\ \/ \E js \in JunctionLists, f \in Layouts(Cells(0, MaxCol)) :
              \E reversed \in (IF Len(js) < 2 THEN BOOLEAN ELSE {FALSE}) :
                  rungs = <<LayoutRung(js, f, reversed)>>
       \/ \E ts \in SeqsUpTo(InputTypes, MaxCoilRungContacts),
              os \in SeqsUpTo(OutputTypes, MaxOutputs) :
              rungs = <<CoilRung(ts, os)>>
       \/ \E f \in Layouts(BranchCells), reversed \in BOOLEAN :
              rungs = <<BranchRung(f, reversed)>>
    /\ stCode = <<>>
    /\ pc = "input"
    /\ simRungs = <<>>
    /\ isRunning = FALSE
    /\ intervalId = NoInterval
    /\ intervals = {}
    /\ variables = EmptyMap
    /\ timers = EmptyMap
    /\ counters = EmptyMap
    /\ snapshot = NoSnapshot
    /\ lastOp = "call"
    /\ enTicks = EmptyMap
    /\ latched = {}
    /\ preScan = NoPreScan
    /\ tickPos = 0
    /\ edits = 0
    /\ parallelSections = <<>>

(* The editor's stCode memo: convertToSTLanguage(rungs). *)
Convert ==
    /\ pc = "input"
    /\ stCode' = convertToSTLanguage(rungs)
    /\ pc' = "converted"
    /\ rungs' = rungsAfterAnalysis(rungs)
    /\ UNCHANGED <<edits, parallelSections, simVars>>

(* A second call of convertToSTLanguage on the rung list of the first. *)
ConvertAgain ==
    /\ pc = "converted"
    /\ stCode' = convertToSTLanguage(rungs)
    /\ pc' = "reconverted"
    /\ rungs' = rungsAfterAnalysis(rungs)
    /\ UNCHANGED <<edits, parallelSections, simVars>>

(* A call of detectParallelPaths on every rung of the list. *)
DetectParallelPaths ==
    /\ pc = "reconverted"
    /\ parallelSections' = [k \in 1..Len(rungs) |-> detectParallelPaths(rungs[k])]
    /\ pc' = "detected"
    /\ rungs' = rungsAfterAnalysis(rungs)
    /\ UNCHANGED <<stCode, edits, simVars>>

NextSynth == Convert \/ ConvertAgain \/ DetectParallelPaths

SpecSynth == InitSynth /\ [][NextSynth]_vars

----------------------------------------------------------------------------
(* Reading the emitted text. *)

IsComment(line) == line # <<>> /\ line[1] = "//"

IsStatement(line) == line # <<>> /\ line[1] # "//"

(* The first index of token tok in line, or 0. *)
RECURSIVE IndexOf(_, _, _)
IndexOf(line, tok, i) ==
    IF i > Len(line) THEN 0
    ELSE IF line[i] = tok THEN i
    ELSE IndexOf(line, tok, i + 1)

(* The sides of a statement  lhs := rhs ; *)
Lhs(line) == SubSeq(line, 1, IndexOf(line, ":=", 1) - 1)

Rhs(line) == SubSeq(line, IndexOf(line, ":=", 1) + 1, Len(line) - 1)

IsAssignment(line) ==
    IsStatement(line) /\ IndexOf(line, ":=", 1) > 1 /\ line[Len(line)] = ";"

(* The index of the comment line of rung k (1-based) in the text, or 0. *)
RECURSIVE CommentLine(_, _, _)
CommentLine(code, k, i) ==
    IF i > Len(code) THEN 0
    ELSE IF /\ Len(code[i]) >= 3
            /\ code[i][1] = "//" /\ code[i][2] = "Rung" /\ code[i][3] = ToString(k)
         THEN i
    ELSE CommentLine(code, k, i + 1)

(* The lines from index i up to the next empty line. *)
RECURSIVE Block(_, _)
Block(code, i) ==
    IF i > Len(code) \/ code[i] = <<>> THEN <<>>
    ELSE <<code[i]>> \o Block(code, i + 1)

(* The statement lines the text holds for rung k. *)
StatementsOfRung(code, k) ==
    IF CommentLine(code, k, 1) = 0 THEN <<>>
    ELSE Block(code, CommentLine(code, k, 1) + 1)

Range(s) == {s[i] : i \in 1..Len(s)}

OfType(rung, types) == Filter(rung.elements, LAMBDA el : el.type \in types)

JunctionColumns(rung) ==
    {el.position.x : el \in Range(OfType(rung, {"WIRE_JUNCTION"}))}

ContactVariables(rung) == {el.variable : el \in Range(OfType(rung, InputTypes))}

----------------------------------------------------------------------------
(* C1: for every rung and every assignment of booleans to its contact      *)
(* variables, the condition executeRung computes equals the truth value,   *)
(* under ST precedence, of the condition expression convertToSTLanguage    *)
(* emitted for the rung's outputs (for every rung that gets a statement).  *)
C1_SimulationAgreesWithST ==
    pc = "converted" =>
        \A k \in 1..Len(rungs) :
            \A line \in Range(StatementsOfRung(stCode, k)) :
                /\ IsAssignment(line)
                /\ WellFormedST(Rhs(line))
                /\ \A env \in [ContactVariables(rungs[k]) -> BOOLEAN] :
                       EvalST(Rhs(line), env) = finalResult(rungs[k], env)

(* A leading contact in series with a parallel group, one of them negated. *)
C1_Witness ==
    /\ pc = "converted"
    /\ \E line \in Range(StatementsOfRung(stCode, 1)) :
          /\ IndexOf(Rhs(line), "AND", 1) > 0
          /\ IndexOf(Rhs(line), "OR", 1) > IndexOf(Rhs(line), "AND", 1)
          /\ IndexOf(Rhs(line), "NOT", 1) > 0

----------------------------------------------------------------------------
(* The series expression written from the contract's words: the contacts   *)
(* in column order (contacts of one column in list order), NO as the       *)
(* variable, NC as NOT variable, joined by AND.                            *)

Contacts(rung) == OfType(rung, InputTypes)

Outputs(rung) == OfType(rung, OutputTypes)

ColumnRank(contacts, i) ==
    1 + Cardinality({j \in 1..Len(contacts) :
                        \/ contacts[j].position.x < contacts[i].position.x
                        \/ /\ contacts[j].position.x = contacts[i].position.x
                           /\ j < i})

ContactOfRank(contacts, k) ==
    contacts[CHOOSE i \in 1..Len(contacts) : ColumnRank(contacts, i) = k]

Term(contact) ==
    IF contact.type = "NC_CONTACT" THEN <<"NOT", contact.variable>>
    ELSE <<contact.variable>>

RECURSIVE SeriesTermsFrom(_, _)
SeriesTermsFrom(contacts, k) ==
    IF k > Len(contacts) THEN <<>>
    ELSE (IF k > 1 THEN <<"AND">> ELSE <<>>)
         \o Term(ContactOfRank(contacts, k))
         \o SeriesTermsFrom(contacts, k + 1)

SeriesCase(rung) ==
    /\ Len(OfType(rung, {"WIRE_JUNCTION"})) < 2
    /\ Len(Contacts(rung)) >= 1

(* C2: a rung with fewer than two junctions and contacts c1..cn (n >= 1)   *)
(* in column order gets, for each OUTPUT_COIL Y, the line                  *)
(* Y := t1 AND ... AND tn;  where ti is the variable of a NO contact and   *)
(* NOT variable of an NC contact.                                          *)
C2_SeriesRungStatement ==
    pc = "converted" =>
        \A k \in 1..Len(rungs) :
            SeriesCase(rungs[k]) =>
                \A out \in Range(OfType(rungs[k], {"OUTPUT_COIL"})) :
                    (<<out.variable, ":=">> \o SeriesTermsFrom(Contacts(rungs[k]), 1) \o <<";">>)
                        \in Range(StatementsOfRung(stCode, k))

(* NO contact A followed by NC contact B, coil Y. *)
C2_Witness ==
    /\ pc = "converted"
    /\ SeriesCase(rungs[1])
    /\ Len(Contacts(rungs[1])) = 2
    /\ <<"Y", ":=", "A", "AND", "NOT", "B", ";">> \in Range(StatementsOfRung(stCode, 1))

----------------------------------------------------------------------------
(* The rung of the parallel-branch example: junctions at columns 2 and 5,  *)
(* NO contact A on row 0 and NO contact B on row 1 strictly between them,  *)
(* no other contact, an OUTPUT_COIL Y.                                     *)
BranchExampleCase(rung) ==
    /\ Len(OfType(rung, {"WIRE_JUNCTION"})) = 2
    /\ JunctionColumns(rung) = {BranchStartX, BranchStartX + BranchWidth}
    /\ Len(Contacts(rung)) = 2
    /\ \E a, b \in Range(Contacts(rung)) :
          /\ a.type = "NO_CONTACT" /\ a.variable = "A" /\ a.position.y = 0
          /\ b.type = "NO_CONTACT" /\ b.variable = "B" /\ b.position.y = 1
          /\ \A c \in {a, b} : /\ c.position.x > BranchStartX
                               /\ c.position.x < BranchStartX + BranchWidth
    /\ \E out \in Range(Outputs(rung)) :
          out.type = "OUTPUT_COIL" /\ out.variable = "Y"

(* C3 as stated: the example rung gets the line  Y := (A OR B);  with the  *)
(* OR-group keeping its wrapping parentheses.                              *)
C3_BranchKeepsParentheses ==
    pc = "converted" =>
        \A k \in 1..Len(rungs) :
            BranchExampleCase(rungs[k]) =>
                <<"Y", ":=", "(", "A", "OR", "B", ")", ";">>
                    \in Range(StatementsOfRung(stCode, k))

(* C3: the example rung gets the line  Y := A OR B;  the two rows joined   *)
(* by OR, and the parentheses that wrap the whole expression removed by    *)
(* optimizeLogicExpression.                                                *)
C3_BranchStatement ==
    pc = "converted" =>
        \A k \in 1..Len(rungs) :
            BranchExampleCase(rungs[k]) =>
                /\ <<"Y", ":=", "A", "OR", "B", ";">>
                       \in Range(StatementsOfRung(stCode, k))
                /\ \A line \in Range(StatementsOfRung(stCode, k)) :
                       Lhs(line) = <<"Y">> => Rhs(line) = <<"A", "OR", "B">>

C3_Witness ==
    /\ pc = "converted"
    /\ BranchExampleCase(rungs[1])
    /\ StatementsOfRung(stCode, 1) # <<>>

----------------------------------------------------------------------------
(* C10 as stated: a rung with a non-empty condition gets one statement per *)
(* output element, v := cond; for an OUTPUT_COIL and, for a SET_COIL or    *)
(* RESET_COIL, a call SET(v); or RESET(v); guarded by IF cond THEN, never  *)
(* an assignment whose left-hand side is SET(v) or RESET(v).               *)
C10_SetResetGuardedCalls ==
    pc = "converted" =>
        \A k \in 1..Len(rungs) :
            LET lines == StatementsOfRung(stCode, k)
                outs == Outputs(rungs[k])
            IN analyzeRungLogic(rungs[k]) # <<>> =>
                  /\ Len(lines) = Len(outs)
                  /\ \A i \in 1..Len(outs) :
                        IF outs[i].type = "OUTPUT_COIL"
                        THEN /\ IsAssignment(lines[i])
                             /\ Lhs(lines[i]) = <<outs[i].variable>>
                        ELSE /\ lines[i][1] = "IF"
                             /\ IndexOf(lines[i], "THEN", 1) > 0
                             /\ ~(/\ IsAssignment(lines[i])
                                  /\ Lhs(lines[i])[1] \in {"SET", "RESET"})

----------------------------------------------------------------------------
(* Coils across scans. *)

RECURSIVE Replay(_, _)
Replay(writes, vs) ==
    IF writes = <<>> THEN vs
    ELSE Replay(Tail(writes), Put(vs, Head(writes).variable, Head(writes).value))

(* In the last scan an OUTPUT_COIL assigned its rung's condition, a        *)
(* SET_COIL assigned true only under a true condition and a RESET_COIL     *)
(* false only under a true condition, each to its own variable.            *)
CoilSemantics ==
    variables = Replay(CoilWrites(preScan, simRungs), AfterCounters(preScan).variables)

ResetFires(v) ==
    \E w \in Range(WritesTo(preScan, simRungs, v)) : w.by = "RESET_COIL"

OutputAssignsFalse(v) ==
    \E w \in Range(WritesTo(preScan, simRungs, v)) : w.by = "OUTPUT_COIL" /\ ~w.value

(* C4 as stated: a variable made true by a SET_COIL is true after every    *)
(* later scan unless, in that scan, a RESET_COIL on it has a true          *)
(* condition or an OUTPUT_COIL on it assigns false (setVariable removes    *)
(* the variable from latched).                                             *)
C4_LatchedUntilResetOrOutput ==
    lastOp = "scan" =>
        /\ CoilSemantics
        /\ \A v \in preScan.latched :
              (~ResetFires(v) /\ ~OutputAssignsFalse(v)) => Get(variables, v)

(* C4: coils write as CoilSemantics says, and a variable made true by a    *)
(* SET_COIL is true after every later scan unless, in that scan, a         *)
(* RESET_COIL on it has a true condition, an OUTPUT_COIL on it assigns     *)
(* false, or the timer or counter loop writes it (it is the _Q variable of *)
(* a timer, or of a counter that counts or resets).                        *)
C4_LatchedUntilWritten ==
    lastOp = "scan" =>
        /\ CoilSemantics
        /\ \A v \in preScan.latched :
              (/\ ~ResetFires(v)
               /\ ~OutputAssignsFalse(v)
               /\ v \notin TimerStepWrites(preScan) \cup CounterStepWrites(preScan))
                  => Get(variables, v)

(* A scan that found a variable latched and whose SET rung did not fire. *)
C4_Witness ==
    /\ lastOp = "scan"
    /\ \E v \in preScan.latched :
          /\ v \notin TimerStepWrites(preScan) \cup CounterStepWrites(preScan)
          /\ WritesTo(preScan, simRungs, v) = <<>>
          /\ Get(variables, v)

----------------------------------------------------------------------------
(* C5: a timer whose enable variable was true at the last n scans in a row *)
(* has accumulated n increments and is done exactly when that has reached  *)
(* the preset; after a scan that found the enable false (n = 0) it has     *)
(* accumulated 0 and is not done.                                          *)
C5_TimerOnDelay ==
    \A t \in DOMAIN timers :
        /\ timers[t].current = ScanIncrement * enTicks[t]
        /\ timers[t].done <=> (ScanIncrement * enTicks[t] >= timers[t].preset)
        /\ timers[t].preset = TimerPreset

(* The scan at which the accumulated time first reaches the preset. *)
C5_Witness ==
    \E t \in DOMAIN timers :
        /\ lastOp = "scan"
        /\ enTicks[t] > 0
        /\ timers[t].current = timers[t].preset
        /\ timers[t].done

----------------------------------------------------------------------------
BothAsserted(c) ==
    Get(preScan.variables, c \o "_CU") /\ Get(preScan.variables, c \o "_R")

(* C6 as stated: a scan that finds both the count-up and the reset         *)
(* variable of a counter true ends with current 0, done false and the      *)
(* counter's _Q variable false.                                            *)
C6_ResetPriority ==
    lastOp = "scan" =>
        \A c \in DOMAIN counters :
            BothAsserted(c) =>
                /\ counters[c].current = 0
                /\ ~counters[c].done
                /\ ~Get(variables, c \o "_Q")

(* C6: such a scan ends with current 0 and done false; the _Q variable is  *)
(* false when the counter loop ends, and at the end of the scan unless a   *)
(* coil wrote that variable in the rung loop.                              *)
C6_ResetPriorityOfCounter ==
    lastOp = "scan" =>
        \A c \in DOMAIN counters :
            BothAsserted(c) =>
                /\ counters[c].current = 0
                /\ ~counters[c].done
                /\ ~Get(AfterCounters(preScan).variables, c \o "_Q")
                /\ WritesTo(preScan, simRungs, c \o "_Q") = <<>>
                       => ~Get(variables, c \o "_Q")

(* Both asserted on a counter that had counted to its preset. *)
C6_Witness ==
    /\ lastOp = "scan"
    /\ \E c \in DOMAIN counters :
          /\ BothAsserted(c)
          /\ preScan.counters[c].done
          /\ counters[c].current = 0

----------------------------------------------------------------------------
(* C7: while isRunning is false no scan runs: a step from such a state is  *)
(* a public call, leaves timers and counters alone and changes variables   *)
(* only as one setVariable does.                                           *)
C7_NoScanWhileStopped ==
    [][~isRunning =>
          /\ lastOp' # "scan"
          /\ timers' = timers
          /\ counters' = counters
          /\ variables' # variables =>
                \E name \in DOMAIN variables, value \in BOOLEAN :
                    variables' = setVariable(variables, name, value)]_vars

(* Stopped after scans that advanced a timer or a counter. *)
C7_Witness ==
    /\ ~isRunning
    /\ intervals = {}
    /\ \/ \E t \in DOMAIN timers : timers[t].current > 0
       \/ \E c \in DOMAIN counters : counters[c].current > 0

----------------------------------------------------------------------------
OneTickSource ==
    /\ isRunning \in BOOLEAN
    /\ Cardinality(intervals) <= 1
    /\ isRunning <=> intervals # {}
    /\ isRunning <=> intervalId # NoInterval
    /\ isRunning => intervals = {intervalId}

(* C8: before and after every step the simulator is STOPPED or RUNNING,    *)
(* at most one interval calls scan, and one does exactly when isRunning is *)
(* true, the one intervalId names; a step that leaves isRunning as it was  *)
(* (start() while RUNNING, stop() while STOPPED among them) leaves the     *)
(* interval as it was.                                                     *)
C8_OneTickSource ==
    [][/\ OneTickSource
       /\ OneTickSource'
       /\ isRunning' = isRunning => UNCHANGED <<intervals, intervalId>>]_vars

(* Running, the interval having fired. *)
C8_Witness ==
    /\ isRunning
    /\ lastOp = "scan"
    /\ intervals = {intervalId}

----------------------------------------------------------------------------
(* C9 as stated: what a client reads through a value getState() returned   *)
(* is not changed by later scans or setVariable calls, and a write into    *)
(* the returned value leaves the simulator's state as it was.              *)
C9_SnapshotReadOnly ==
    [][/\ (snapshot # NoSnapshot /\ snapshot' = snapshot) => SnapshotView' = SnapshotView
       /\ lastOp' = "write" => UNCHANGED <<variables, timers, counters>>]_vars

----------------------------------------------------------------------------
(* The timer and counter blocks drawn in a rung, and the tokens that would *)
(* refer to the done output of one.                                        *)

BlockTypes == {"TIMER_BLOCK", "COUNTER_BLOCK"}

Blocks(rung) == OfType(rung, BlockTypes)

DoneOutput(block) == block.variable \o "_Q"

DoneOutputTerms(block) == {block.variable, DoneOutput(block), block.variable \o ".Q"}

(* C11 as stated: a TIMER or COUNTER block drawn in a rung takes part in   *)
(* the rung's logic: the condition synthesized for the rung holds a term   *)
(* referring to the block's done output, and the condition a scan computes *)
(* for the rung is false whenever that done output is false.               *)
C11_BlocksTakePartInLogic ==
    \A k \in 1..Len(simRungs) :
        \A block \in Range(Blocks(simRungs[k])) :
            /\ DoneOutputTerms(block) \cap Range(analyzeRungLogic(simRungs[k])) # {}
            /\ (/\ lastOp = "scan"
                /\ ~Get(VarsBeforeRung(preScan, simRungs, k), DoneOutput(block)))
               => ~RungCondition(preScan, simRungs, k)

----------------------------------------------------------------------------
(* C12: optimizeLogicExpression never changes the truth value: for every   *)
(* expression analyzeRungLogic produces and every assignment of booleans   *)
(* to its variables, the optimized expression is well formed and           *)
(* evaluates, under ST precedence, to the boolean the unoptimized one      *)
(* evaluates to.                                                           *)
C12_OptimizePreservesTruth ==
    pc = "converted" =>
        \A k \in 1..Len(rungs) :
            LET e == analyzeRungLogic(rungs[k])
            IN e # <<>> =>
                  /\ WellFormedST(e)
                  /\ WellFormedST(optimizeLogicExpression(e))
                  /\ \A env \in [ContactVariables(rungs[k]) -> BOOLEAN] :
                         EvalST(optimizeLogicExpression(e), env) = EvalST(e, env)

(* A parenthesised group with a negated contact that the optimizer         *)
(* rewrites.                                                               *)
C12_Witness ==
    /\ pc = "converted"
    /\ LET e == analyzeRungLogic(rungs[1])
       IN /\ optimizeLogicExpression(e) # e
          /\ "NOT" \in Range(e)
          /\ "OR" \in Range(e)

----------------------------------------------------------------------------
(* C13: optimizeLogicExpression is idempotent on synthesized expressions:  *)
(* for every expression e analyzeRungLogic produces, optimizing the        *)
(* optimized expression again returns it unchanged.                        *)
C13_OptimizeIdempotent ==
    pc = "converted" =>
        \A k \in 1..Len(rungs) :
            LET e == analyzeRungLogic(rungs[k])
            IN optimizeLogicExpression(optimizeLogicExpression(e))
                   = optimizeLogicExpression(e)

(* An expression that is still wrapped in parentheses after the first      *)
(* pass: a group of paths the first of which is itself parenthesised.      *)
C13_Witness ==
    /\ pc = "converted"
    /\ LET o == optimizeLogicExpression(analyzeRungLogic(rungs[1]))
       IN /\ Len(o) >= 2
          /\ o[1] = "(" /\ o[2] = "("
          /\ o[Len(o)] = ")"

----------------------------------------------------------------------------
(* The contacts of a rung that stand on the column of one of its junctions. *)
OnJunctionColumn(rung) ==
    Filter(Contacts(rung), LAMBDA el : el.position.x \in JunctionColumns(rung))

(* C19: in a rung with two or more junctions, a contact whose column is a  *)
(* junction's column belongs to no section: its variable is in no          *)
(* condition emitted for the rung, and the condition executeRung computes  *)
(* is the same whichever value the variable has.                           *)
C19_JunctionColumnContactsIgnored ==
    pc = "converted" =>
        \A k \in 1..Len(rungs) :
            Len(OfType(rungs[k], {"WIRE_JUNCTION"})) >= 2 =>
                \A c \in Range(OnJunctionColumn(rungs[k])) :
                    /\ c.variable \notin Range(analyzeRungLogic(rungs[k]))
                    /\ \A line \in Range(StatementsOfRung(stCode, k)) :
                           c.variable \notin Range(line)
                    /\ \A env \in [ContactVariables(rungs[k]) -> BOOLEAN] :
                           finalResult(rungs[k], [env EXCEPT ![c.variable] = ~@])
                               = finalResult(rungs[k], env)

(* A contact on a junction column beside contacts that form the rung's     *)
(* condition.                                                              *)
C19_Witness ==
    /\ pc = "converted"
    /\ Len(OfType(rungs[1], {"WIRE_JUNCTION"})) >= 2
    /\ OnJunctionColumn(rungs[1]) # <<>>
    /\ Len(Contacts(rungs[1])) > Len(OnJunctionColumn(rungs[1]))
    /\ StatementsOfRung(stCode, 1) # <<>>

----------------------------------------------------------------------------
(* The rungs (1-based indices) of a rung list that hold no contact. *)
Contactless(rs) == {k \in 1..Len(rs) : Contacts(rs[k]) = <<>>}

(* C20: a rung with no contact is treated as always-false: a scan assigns  *)
(* false to the variable of each of its OUTPUT_COILs and leaves the        *)
(* variables of its SET_COILs and RESET_COILs as the rung found them, and  *)
(* convertToSTLanguage emits no statement for the rung.                    *)
C20_ContactlessRungIsFalse ==
    \A k \in Contactless(simRungs) :
        /\ StatementsOfRung(convertToSTLanguage(simRungs), k) = <<>>
        /\ lastOp = "scan" =>
              LET before == VarsBeforeRung(preScan, simRungs, k)
                  after == VarsBeforeRung(preScan, simRungs, k + 1)
                  assigned == {el.variable :
                                  el \in Range(OfType(simRungs[k], {"OUTPUT_COIL"}))}
              IN /\ \A v \in assigned : v \in DOMAIN after /\ after[v] = FALSE
                 /\ \A el \in Range(OfType(simRungs[k], {"SET_COIL", "RESET_COIL"})) :
                        el.variable \notin assigned =>
                            Get(after, el.variable) = Get(before, el.variable)

(* A scan in which a contactless rung finds the variable of its            *)
(* OUTPUT_COIL and the variable of its SET_COIL or RESET_COIL both true.   *)
C20_Witness ==
    /\ lastOp = "scan"
    /\ \E k \in Contactless(simRungs) :
          /\ \E el \in Range(OfType(simRungs[k], {"OUTPUT_COIL"})) :
                /\ Get(VarsBeforeRung(preScan, simRungs, k), el.variable)
                /\ ~Get(variables, el.variable)
          /\ \E el \in Range(OfType(simRungs[k], {"SET_COIL", "RESET_COIL"})) :
                Get(variables, el.variable)

----------------------------------------------------------------------------
----------------------------------------------------------------------------
(* The variables no step of the executing or last scan writes hold the     *)
(* values the scan started with.                                           *)
InputsHeldThroughScan ==
    lastOp = "scan" =>
        \A x \in DOMAIN preScan.variables \ WrittenInScan(preScan, simRungs) :
            x \in DOMAIN variables /\ variables[x] = preScan.variables[x]

(* A scan that has taken its last step leaves what scan() computes from    *)
(* the state it started with.                                              *)
ScanCompleted ==
    (lastOp = "scan" /\ tickPos = 0) =>
        /\ variables = scan(preScan, simRungs).variables
        /\ timers = scan(preScan, simRungs).timers
        /\ counters = scan(preScan, simRungs).counters

(* C15: a setVariable call never takes effect in the middle of a tick:     *)
(* the step that follows a step of a scan is the next step of that scan    *)
(* (no call and no other scan comes between), so every rung of a tick      *)
(* finds an input variable that no coil writes with the value the tick     *)
(* started with, and the tick ends in the state one uninterrupted scan     *)
(* computes.                                                               *)
C15_TickRunsToCompletion ==
    [][/\ tickPos # 0 => (lastOp' = "scan" /\ preScan' = preScan
                           /\ tickPos' = (IF tickPos = Len(simRungs) THEN 0 ELSE tickPos + 1))
       /\ InputsHeldThroughScan'
       /\ ScanCompleted']_vars

(* A scan between two rungs that read one input, started after a          *)
(* setVariable made that input true, the first rung having written.        *)
C15_Witness ==
    /\ tickPos = 2
    /\ lastOp = "scan"
    /\ variables # AfterCounters(preScan).variables
    /\ \E x \in ContactVariables(simRungs[1]) \cap ContactVariables(simRungs[2]) :
          /\ x \notin WrittenInScan(preScan, simRungs)
          /\ Get(variables, x)

----------------------------------------------------------------------------
(* The editor's operations on its rung list, beside a live simulator. *)

MaxEdits == 1              \* edits made to the rung list

getDefaultVariable(elementType) ==
    CASE elementType \in {"NO_CONTACT", "NC_CONTACT"} -> "X001"
      [] elementType \in {"OUTPUT_COIL", "SET_COIL", "RESET_COIL"} -> "Y001"
      [] elementType = "TIMER_BLOCK" -> "T001"
      [] elementType = "COUNTER_BLOCK" -> "C001"
      [] elementType \in {"WIRE_HORIZONTAL", "WIRE_VERTICAL", "WIRE_JUNCTION"} -> "WIRE"
      [] OTHER -> "VAR"

(* The rung list the editor starts with. *)
InitialRungs ==
    << [elements |-> << Element("NO_CONTACT", "X001", 1, 0),
                        Element("OUTPUT_COIL", "Y001", 6, 0) >>,
        height |-> 1] >>

(* The element types and the cells the edits below choose from. *)
PaletteTypes == {"NC_CONTACT", "WIRE_HORIZONTAL"}

EditCells == {[x |-> 1, y |-> 0], [x |-> 2, y |-> 0]}

Occupied(rung, position) == \E el \in Range(rung.elements) : el.position = position

Max(a, b) == IF a >= b THEN a ELSE b

(* What every edit leaves alone: the simulator and the emitted text. *)
EditKeeps ==
    /\ callbackMayRun(tickPos)
    /\ edits < MaxEdits
    /\ edits' = edits + 1
    /\ lastOp' = "edit"
    /\ preScan' = NoPreScan
    /\ UNCHANGED <<stCode, pc, parallelSections, simRungs, isRunning, intervalId,
                   intervals, variables, timers, counters, snapshot, enTicks, latched,
                   tickPos>>

(* handleCellClick on an empty cell, then insertElementAtActiveCell *)
InsertElement ==
    /\ \E k \in 1..Len(rungs), elementType \in PaletteTypes, position \in EditCells :
          /\ ~Occupied(rungs[k], position)
          /\ rungs' = [rungs EXCEPT ![k].elements =
                          Append(@, Element(elementType, getDefaultVariable(elementType),
                                            position.x, position.y))]
    /\ EditKeeps

(* handleDrop: the dragged type lands on the cell, occupied or not *)
DropElement ==
    /\ \E k \in 1..Len(rungs), draggedElementType \in PaletteTypes, position \in EditCells :
          rungs' = [rungs EXCEPT ![k].elements =
                       Append(@, Element(draggedElementType,
                                         getDefaultVariable(draggedElementType),
                                         position.x, position.y))]
    /\ EditKeeps

(* handleElementDelete: the element of that id leaves its rung *)
DeleteElement ==
    /\ \E k \in 1..Len(rungs) :
          \E i \in 1..Len(rungs[k].elements) :
              rungs' = [rungs EXCEPT ![k].elements =
                           SubSeq(@, 1, i - 1) \o SubSeq(@, i + 1, Len(@))]
    /\ EditKeeps

(* addParallelBranch(rung.id, 2) *)
AddParallelBranch ==
    /\ \E k \in 1..Len(rungs) :
          rungs' = [rungs EXCEPT ![k].elements = @ \o ParallelBranch(BranchStartX),
                                 ![k].height = Max(@, BranchHeight)]
    /\ EditKeeps

InitEditor == InitWith({InitialRungs})

NextEditor ==
    \/ Start \/ Stop \/ SetVariable \/ GetState \/ Scan
    \/ InsertElement \/ DropElement \/ DeleteElement \/ AddParallelBranch

SpecEditor == InitEditor /\ [][NextEditor]_vars

----------------------------------------------------------------------------
(* C16 as stated: each tick evaluates the rungs as they are placed: after  *)
(* an element was inserted into or deleted from a rung between two ticks   *)
(* of a live simulator, the tick leaves the variables that one scan of the *)
(* edited rung list computes from the state the tick started with.         *)
C16_TickUsesEditedRungs ==
    lastOp = "scan" =>
        variables = executeRungs(AfterCounters(preScan).variables, rungs)

----------------------------------------------------------------------------
(* The variable table and the declarations drawn from a rung list. *)

(* rungs.forEach((rung, rungIndex) => rung.elements.forEach((element,      *)
(* elementIndex) => ...)): the elements in visiting order with their       *)
(* place, rungIndex and elementIndex counted from 0.                       *)
RECURSIVE Visited(_, _)
Visited(rs, rungIndex) ==
    IF rungIndex >= Len(rs) THEN <<>>
    ELSE [i \in 1..Len(rs[rungIndex + 1].elements) |->
             [element |-> rs[rungIndex + 1].elements[i],
              rungIndex |-> rungIndex, elementIndex |-> i - 1]]
         \o Visited(rs, rungIndex + 1)

(* `R${rungIndex + 1}:${elementIndex + 1}` *)
Location(v) == "R" \o ToString(v.rungIndex + 1) \o ":" \o ToString(v.elementIndex + 1)

(* The row of a variable in a table, or 0. *)
RowOf(table, variable) ==
    IF \E i \in 1..Len(table) : table[i].variable = variable
    THEN CHOOSE i \in 1..Len(table) : table[i].variable = variable
    ELSE 0

(* generateVariableTable: one row per variable in order of first           *)
(* occurrence, with the type of the first element that carries it.         *)
RECURSIVE TableRows(_, _)
TableRows(visited, table) ==
    IF visited = <<>> THEN table
    ELSE LET v == Head(visited)
             row == RowOf(table, v.element.variable)
         IN IF v.element.variable # "" /\ v.element.variable # "WIRE"
            THEN TableRows(Tail(visited),
                     IF row = 0
                     THEN Append(table, [variable |-> v.element.variable,
                                         type |-> v.element.type,
                                         count |-> 1,
                                         locations |-> <<Location(v)>>])
                     ELSE [table EXCEPT ![row].count = @ + 1,
                                        ![row].locations = Append(@, Location(v))])
            ELSE TableRows(Tail(visited), table)

generateVariableTable(rs) == TableRows(Visited(rs, 0), <<>>)

(* variable.startsWith(letter), for the names the model's rungs carry. *)
startsWith(variable, letter) ==
    CASE letter = "T" -> variable \in {"T001", "T1", "T1_Q", "T1_EN"}
      [] letter = "C" -> variable \in {"C001", "C1", "C1_CU", "C1_R", "C1_Q", "C"}
      [] OTHER -> FALSE

(* PLCCodeGenerator.extractVariablesFromLadder: one declaration per        *)
(* variable in order of first occurrence, typed by the name's first letter. *)
RECURSIVE Declarations(_, _)
Declarations(visited, declared) ==
    IF visited = <<>> THEN declared
    ELSE LET variable == Head(visited).element.variable
         IN IF /\ variable # "" /\ variable # "WIRE"
               /\ \A i \in 1..Len(declared) : declared[i].name # variable
            THEN Declarations(Tail(visited),
                     Append(declared,
                            [name |-> variable,
                             type |-> IF startsWith(variable, "C") THEN "CTU"
                                      ELSE IF startsWith(variable, "T") THEN "TON"
                                      ELSE "BOOL"]))
            ELSE Declarations(Tail(visited), declared)

extractVariablesFromLadder(rs) == Declarations(Visited(rs, 0), <<>>)

(* The variables the wire elements of a rung list carry. *)
WireVariables(rs) ==
    UNION {{el.variable : el \in Range(OfType(rs[k], WireTypes))} : k \in 1..Len(rs)}

(* C18 as stated: for every rung list the editor's operations (cell        *)
(* insert, drop, addParallelBranch, delete) reach, no variable of a wire   *)
(* element is in the table of generateVariableTable, in the declarations   *)
(* PLCCodeGenerator extracts, or in the variables map of the live          *)
(* simulator or of a simulator constructed from the rung list.             *)
C18_WireVariablesExcluded ==
    \A v \in WireVariables(rungs) :
        /\ \A i \in 1..Len(generateVariableTable(rungs)) :
               generateVariableTable(rungs)[i].variable # v
        /\ \A i \in 1..Len(extractVariablesFromLadder(rungs)) :
               extractVariablesFromLadder(rungs)[i].name # v
        /\ v \notin DOMAIN variables
        /\ v \notin DOMAIN initializeVariables(rungs).variables

----------------------------------------------------------------------------
(* The variables the elements of a rung list that are no wires carry. *)
NonWireVariables(rs) ==
    UNION {{el.variable : el \in Range(Filter(rs[k].elements,
                                             LAMBDA e : e.type \notin WireTypes))} :
              k \in 1..Len(rs)}

(* C17 as stated: the text convertToSTLanguage returns for a rung list     *)
(* holds a block from a line VAR to a line END_VAR that declares every     *)
(* variable an element of those rungs that is no wire refers to.           *)
C17_DeclaresEveryVariable ==
    pc = "converted" =>
        \E i, j \in 1..Len(stCode) :
            /\ i < j
            /\ stCode[i] = <<"VAR">>
            /\ stCode[j] = <<"END_VAR">>
            /\ \A v \in NonWireVariables(rungs) :
                   \E l \in (i + 1)..(j - 1) : stCode[l] # <<>> /\ stCode[l][1] = v

----------------------------------------------------------------------------
(* The rungs before rung j that hold a coil on variable v, and whether     *)
(* the only coils a rung holds on v are OUTPUT_COILs.                      *)
WritersBefore(rs, j, v) ==
    {i \in 1..(j - 1) : \E el \in Range(Outputs(rs[i])) : el.variable = v}

OutputCoilOnly(rung, v) ==
    \A el \in Range(Outputs(rung)) : el.variable = v => el.type = "OUTPUT_COIL"

Last(S) == CHOOSE i \in S : \A k \in S : k <= i

----------------------------------------------------------------------------
(* C22 as stated: the comment line emitted for the rung of index i names   *)
(* the rung i + 1 and says Parallel Circuit exactly when the rung is       *)
(* analysed by analyzeParallelCircuit (two or more junctions) and Series   *)
(* Circuit exactly when it is analysed as an AND chain (fewer than two).   *)
C22_CommentNamesAnalysis ==
    pc = "converted" =>
        \A k \in 1..Len(rungs) :
            /\ CommentLine(stCode, k, 1) # 0
            /\ LET line == stCode[CommentLine(stCode, k, 1)]
                   parallel == Len(OfType(rungs[k], {"WIRE_JUNCTION"})) >= 2
               IN /\ ("Parallel Circuit" \in Range(line)) <=> parallel
                  /\ ("Series Circuit" \in Range(line)) <=> ~parallel

----------------------------------------------------------------------------
(* C23 as stated: after any sequence of cell-click inserts, drops, added   *)
(* parallel branches and deletions, every rung holds at most one element   *)
(* that is not a wire at any (column, row).                                *)
C23_OneElementPerCell ==
    \A k \in 1..Len(rungs) :
        \A i, j \in 1..Len(rungs[k].elements) :
            LET a == rungs[k].elements[i]
                b == rungs[k].elements[j]
            IN (/\ i # j
                /\ a.type \notin WireTypes
                /\ b.type \notin WireTypes
                /\ a.position = b.position) => FALSE

----------------------------------------------------------------------------
(* The analyses side by side: the editor converting a rung list and        *)
(* detecting its parallel paths while a simulator scans the same rungs.    *)

(* The editor's parallel branch with a contact on the upper row and one on *)
(* the lower row; the branch's end junction precedes both in the list.     *)
AnalysisPrograms ==
    { << Rung(ParallelBranch(BranchStartX)
              \o << Element(t2, "B", xb, 1), Element(t1, "A", xa, 0) >>
              \o Coils(<<"OUTPUT_COIL">>)) >> :
        t1 \in InputTypes, t2 \in InputTypes,
        xa \in (BranchStartX + 1)..(BranchStartX + 2),
        xb \in (BranchStartX + 1)..(BranchStartX + 2) }

InitAnalysis == InitAt(AnalysisPrograms, "input")

NextAnalysis ==
    \/ Convert \/ ConvertAgain \/ DetectParallelPaths
    \/ Start \/ Stop \/ SetVariable \/ GetState \/ Scan

SpecAnalysis == InitAnalysis /\ [][NextAnalysis]_vars

----------------------------------------------------------------------------
(* C25 as stated: a rung for which convertToSTLanguage emits no assignment *)
(* never has an output driven true: whatever its contacts read, a scan of  *)
(* the rung leaves the variable of each OUTPUT_COIL false and sets the     *)
(* variable of no SET_COIL.                                                *)
C25_NoStatementNoDrive ==
    pc = "converted" =>
        \A k \in 1..Len(rungs) :
            StatementsOfRung(stCode, k) = <<>> =>
                \A env \in [ContactVariables(rungs[k]) -> BOOLEAN] :
                    LET outs == OfType(rungs[k], {"OUTPUT_COIL", "SET_COIL"})
                        before == [v \in ContactVariables(rungs[k])
                                         \cup {outs[i].variable : i \in 1..Len(outs)} |->
                                      IF v \in ContactVariables(rungs[k]) THEN env[v] ELSE FALSE]
                        after == executeRung(rungs[k], before)
                    IN \A i \in 1..Len(outs) :
                           outs[i].variable \notin ContactVariables(rungs[k]) =>
                               ~Get(after, outs[i].variable)

----------------------------------------------------------------------------
(* The contacts of a rung strictly between two columns, which is what      *)
(* analyzeParallelCircuit groups for a pair of adjacent junctions.         *)
StrictlyBetween(rung, startX, endX) ==
    Filter(Contacts(rung), LAMBDA el : el.position.x > startX /\ el.position.x < endX)

(* C26 as stated: detectParallelPaths returns a section for a pair of      *)
(* adjacent junctions exactly when the contacts strictly between the two   *)
(* junction columns lie on two or more rows, and the section's paths are   *)
(* those contacts grouped by row.                                          *)
C26_DetectAgreesWithAnalyzer ==
    pc = "detected" =>
        \A k \in 1..Len(rungs) :
            LET js == SortByX(OfType(rungs[k], {"WIRE_JUNCTION"}))
                group(i) == [startX |-> js[i].position.x,
                             endX |-> js[i + 1].position.x,
                             paths |-> PathsByY(StrictlyBetween(rungs[k], js[i].position.x,
                                                                js[i + 1].position.x))]
            IN parallelSections[k] =
                   Filter([i \in 1..(Len(js) - 1) |-> group(i)], LAMBDA s : Len(s.paths) >= 2)

----------------------------------------------------------------------------
(* C27 as stated: after every completed tick, however ticks and calls of   *)
(* setVariable interleave, each timer and each counter has                 *)
(* done = (current >= preset), and the variable <name>_Q reads its done.   *)
C27_BlocksSelfConsistent ==
    (lastOp = "scan" /\ tickPos = 0) =>
        /\ \A t \in DOMAIN timers :
              /\ timers[t].done = (timers[t].current >= timers[t].preset)
              /\ Get(variables, t \o "_Q") = timers[t].done
        /\ \A c \in DOMAIN counters :
              /\ counters[c].done = (counters[c].current >= counters[c].preset)
              /\ Get(variables, c \o "_Q") = counters[c].done

----------------------------------------------------------------------------
(* C28: stop() changes the running flag and the tick source only, leaving  *)
(* variables, timers and counters exactly as they were; nothing advances   *)
(* the timers and counters of a stopped simulator; and start() takes the   *)
(* retained state up as it is, initialising nothing again.                 *)
C28_StopRetainsState ==
    [][/\ (isRunning /\ ~isRunning') =>
              /\ variables' = variables /\ timers' = timers /\ counters' = counters
              /\ simRungs' = simRungs
              /\ intervalId' = NoInterval
              /\ intervals' = intervals \ {intervalId}
       /\ ~isRunning => (timers' = timers /\ counters' = counters)
       /\ (~isRunning /\ isRunning') =>
              /\ variables' = variables /\ timers' = timers /\ counters' = counters
              /\ simRungs' = simRungs]_vars

(* A stopped simulator that holds what its ticks computed: an output       *)
(* driven true and a timer or a counter under way.                         *)
C28_Witness ==
    /\ ~isRunning
    /\ intervals = {}
    /\ lastOp = "call"
    /\ \/ \E t \in DOMAIN timers : timers[t].current > 0
       \/ \E c \in DOMAIN counters : counters[c].current > 0
    /\ \E v \in DOMAIN variables : variables[v] /\ v \in {"Y", "T1_EN", "C1_CU"}

----------------------------------------------------------------------------
(* The rungs that hold an OUTPUT_COIL on variable v. *)
OutputCoilRungs(rs, v) ==
    {k \in 1..Len(rs) : \E el \in Range(OfType(rs[k], {"OUTPUT_COIL"})) : el.variable = v}

(* C29: when OUTPUT_COILs of several rungs write one variable, the value   *)
(* the variable has after a tick is the condition of the last of those     *)
(* rungs in list order, whatever the conditions of the earlier ones.       *)
C29_LastWriterWins ==
    lastOp = "scan" =>
        \A v \in DOMAIN variables :
            (/\ Cardinality(OutputCoilRungs(simRungs, v)) >= 2
             /\ \A k \in 1..Len(simRungs) : OutputCoilOnly(simRungs[k], v)) =>
                variables[v] = RungCondition(preScan, simRungs, Last(OutputCoilRungs(simRungs, v)))

(* A tick over two rungs with an OUTPUT_COIL on one variable each, whose   *)
(* conditions differ.                                                      *)
C29_Witness ==
    /\ lastOp = "scan"
    /\ \E v \in DOMAIN variables :
          /\ OutputCoilRungs(simRungs, v) = {1, 2}
          /\ \A k \in 1..Len(simRungs) : OutputCoilOnly(simRungs[k], v)
          /\ RungCondition(preScan, simRungs, 1) /\ ~RungCondition(preScan, simRungs, 2)
          /\ ~variables[v]

----------------------------------------------------------------------------
(* C30: a counter's done is latched and its count only grows: done falls   *)
(* only in a tick that finds the counter's reset variable true, and the    *)
(* count decreases only in such a tick, to 0.                              *)
C30_CounterDoneLatched ==
    [][\A c \in DOMAIN counters :
           /\ (counters[c].done /\ ~counters'[c].done) =>
                  (lastOp' = "scan" /\ Get(variables, c \o "_R"))
           /\ (counters'[c].current < counters[c].current) =>
                  /\ lastOp' = "scan"
                  /\ Get(variables, c \o "_R")
                  /\ counters'[c].current = 0]_vars

(* A tick that neither counts nor resets, taken by a counter that was done *)
(* before it and is done after it.                                         *)
C30_Witness ==
    /\ lastOp = "scan"
    /\ \E c \in DOMAIN counters :
          /\ preScan.counters[c].done
          /\ ~Get(preScan.variables, c \o "_CU")
          /\ ~Get(preScan.variables, c \o "_R")
          /\ counters[c].done
          /\ counters[c].current >= counters[c].preset

====
